---- MODULE Spec2Model ----
(***************************************************************************)
(* A model of hugo/core/middleware.py: middleware units, the collections   *)
(* that compose them (MiddlewareChain, OneOfAll, AllOfAll), the state      *)
(* injector MiddlewareState and the construction helpers.                  *)
(*                                                                         *)
(* Objects live in `heap` (an object's identity is its index), contexts in *)
(* `ctxs`.  An invocation is a stack of frames, one per pending `run` or   *)
(* `next` call; the top frame is the coroutine that is executing.  A       *)
(* continuation (`next`) is the list of units the closures built by        *)
(* MiddlewareChain.run will call, outermost first; the empty list is the   *)
(* terminal `next` supplied by the caller.  `root` is the unit under test,  *)
(* `fresh` the identity of the last state instance created, `applied` the  *)
(* record of the decorators applied so far.                                *)
(***************************************************************************)
EXTENDS Integers, Sequences, FiniteSets, TLC

VARIABLES heap, ctxs, stacks, result, log, root, fresh, applied

vars == <<heap, ctxs, stacks, result, log, root, fresh, applied>>

(***************************************************************************)
(* Bounds of the model.                                                    *)
(***************************************************************************)
\* Longest collection built in an initial state.
MaxMembers == 3
\* Most decorators stacked on one function.
MaxDecorators == 3
\* Most state injectors in one chain.
MaxInjectors == 2
\* Number of invocations a caller makes of the unit under test.
NumInv == 2
\* Longest collection run by interleaved invocations.
MaxShared == 2
\* Most add_middleware calls made on the collections of one program.
MaxAdds == 3
\* Longest tuple among the values tested for success.
MaxTuple == 2
\* Most units added to a chain after its construction.
MaxLate == 2
\* Most set_state and get_state calls made on one context.
MaxOps == 4

Inv == 1..NumInv

(***************************************************************************)
(* Python values.  Every value is a record of one shape, so that any two   *)
(* values can be compared: t is the kind of value, v a name, n an object   *)
(* identity, items the elements of a tuple.                                *)
(***************************************************************************)
Enum(name) == [t |-> "enum", v |-> name, n |-> 0, items |-> <<>>]
Str(s) == [t |-> "str", v |-> s, n |-> 0, items |-> <<>>]
PyNone == [t |-> "none", v |-> "None", n |-> 0, items |-> <<>>]
Tuple(xs) == [t |-> "tuple", v |-> "tuple", n |-> 0, items |-> xs]
\* An instance of class cls; n is its identity.
Obj(cls, id) == [t |-> "obj", v |-> cls, n |-> id, items |-> <<>>]
\* The class object cls itself.
Class(cls) == [t |-> "class", v |-> cls, n |-> 0, items |-> <<>>]

\* True and False
PyBool(b) == [t |-> "bool", v |-> IF b THEN "True" ELSE "False", n |-> 0,
              items |-> <<>>]

\* MiddlewareResult.OK and MiddlewareResult.IGNORE
OK == Enum("OK")
IGNORE == Enum("IGNORE")

\* The classes that subclass MiddlewareState.ContextState.
ContextState == {"S"}

\* type(value)
TypeOf(value) ==
  CASE value.t = "obj" -> value.v
    [] value.t = "class" -> "type"
    [] value.t = "enum" -> "MiddlewareResult"
    [] value.t = "str" -> "str"
    [] value.t = "none" -> "NoneType"
    [] value.t = "bool" -> "bool"
    [] OTHER -> "tuple"

\* is_successful_result as a bug would have it: OK is taken for a failure too.
is_successful_result_OnlyData(value) == value.t # "enum"

is_successful_result(value) == IF value = IGNORE THEN FALSE ELSE TRUE

(***************************************************************************)
(* Objects.  kind is the class of the object; fn the originating function  *)
(* (0 is None); collection the members of a collection; beh the body of a  *)
(* plain function; state and key the configuration of a MiddlewareState.   *)
(***************************************************************************)
NoBeh == [mode |-> "none", value |-> PyNone, newctx |-> FALSE, addkw |-> FALSE]

\* A plain coroutine function whose body behaves as beh says.
Function(beh) ==
  [kind |-> "Function", fn |-> 0, collection |-> <<>>, beh |-> beh,
   state |-> PyNone, key |-> PyNone]

MiddlewareFunction(fn) ==
  [kind |-> "MiddlewareFunction", fn |-> fn, collection |-> <<>>, beh |-> NoBeh,
   state |-> PyNone, key |-> PyNone]

\* key is None (the default) or a string.
MiddlewareState(state, key) ==
  [kind |-> "MiddlewareState", fn |-> 0, collection |-> <<>>, beh |-> NoBeh,
   state |-> state, key |-> key]

MiddlewareCollection(kind) ==
  [kind |-> kind, fn |-> 0, collection |-> <<>>, beh |-> NoBeh,
   state |-> PyNone, key |-> PyNone]

CollectionKinds == {"MiddlewareChain", "OneOfAll", "AllOfAll"}

MiddlewareKinds == CollectionKinds \cup {"MiddlewareFunction", "MiddlewareState"}

\* isinstance(x, Middleware), x a reference into heap h
IsMiddleware(h, x) == x \in 1..Len(h) /\ h[x].kind \in MiddlewareKinds

(***************************************************************************)
(* Construction.  Each helper takes the heap h and yields the heap after   *)
(* the call, the reference it returns (ref) and whether it raised          *)
(* ValueError (raised); a call that raised leaves the heap as it was when  *)
(* the exception left the helper.                                          *)
(***************************************************************************)
Returned(h, ref) == [heap |-> h, ref |-> ref, raised |-> FALSE]
Raised(h) == [heap |-> h, ref |-> 0, raised |-> TRUE]

\* asyncio.iscoroutinefunction(fn)
IsCoroutineFunction(h, fn) == fn \in 1..Len(h) /\ h[fn].kind = "Function"

\* MiddlewareFunction.__init__ behind as_middleware
as_middleware(h, fn) ==
  IF ~IsCoroutineFunction(h, fn)
    THEN Raised(h)
    ELSE Returned(Append(h, MiddlewareFunction(fn)), Len(h) + 1)

\* MiddlewareCollection.add_middleware as a bug would have it: the value
\* is appended before it is validated.
MiddlewareCollection_add_middleware_LateCheck(h, self, middleware) ==
  IF ~IsMiddleware(h, middleware)
    THEN Raised([h EXCEPT ![self].collection = Append(@, middleware)])
    ELSE Returned([h EXCEPT ![self].collection = Append(@, middleware)],
                  middleware)

\* MiddlewareCollection.add_middleware
MiddlewareCollection_add_middleware(h, self, middleware) ==
  IF ~IsMiddleware(h, middleware)
    THEN Raised(h)
    ELSE Returned([h EXCEPT ![self].collection = Append(@, middleware)],
                  middleware)

\* MiddlewareChain.add_middleware as a bug would have it: fn follows every
\* member added.
MiddlewareChain_add_middleware_LastFn(h, self, middleware) ==
  LET super == MiddlewareCollection_add_middleware(h, self, middleware)
  IN IF super.raised
       THEN super
       ELSE Returned([super.heap EXCEPT ![self].fn = super.heap[middleware].fn],
                     middleware)

\* MiddlewareChain.add_middleware
MiddlewareChain_add_middleware(h, self, middleware) ==
  LET super == MiddlewareCollection_add_middleware(h, self, middleware)
      h1 == super.heap
  IN IF super.raised
       THEN super
       ELSE IF Len(h1[self].collection) = 1
              THEN Returned([h1 EXCEPT ![self].fn = h1[middleware].fn],
                            middleware)
              ELSE Returned(h1, middleware)

\* self.add_middleware(middleware), by the class of self
add_middleware(h, self, middleware) ==
  IF h[self].kind = "MiddlewareChain"
    THEN MiddlewareChain_add_middleware(h, self, middleware)
    ELSE MiddlewareCollection_add_middleware(h, self, middleware)

\* The loop of collection_of from item i on; r is the state reached so far
\* and r.ref the collection being filled.
RECURSIVE collection_of_loop(_, _, _)
collection_of_loop(r, middleware, i) ==
  IF r.raised \/ i > Len(middleware)
    THEN r
    ELSE LET mw == IF IsMiddleware(r.heap, middleware[i])
                     THEN Returned(r.heap, middleware[i])
                     ELSE as_middleware(r.heap, middleware[i])
             added == IF mw.raised
                        THEN mw
                        ELSE add_middleware(mw.heap, r.ref, mw.ref)
         IN collection_of_loop(
              IF added.raised THEN added ELSE Returned(added.heap, r.ref),
              middleware, i + 1)

collection_of(h, collection_class, middleware) ==
  collection_of_loop(
    Returned(Append(h, MiddlewareCollection(collection_class)), Len(h) + 1),
    middleware, 1)

chain_of(h, middleware) == collection_of(h, "MiddlewareChain", middleware)

\* middleware(outer_middleware): the coercion done before the decorator is
\* returned; ref is the unit the decorator will append.
middleware(h, outer_middleware) ==
  IF ~IsMiddleware(h, outer_middleware)
    THEN as_middleware(h, outer_middleware)
    ELSE Returned(h, outer_middleware)

\* The decorator as a bug would have it: a new chain around whatever is
\* decorated, an existing chain included.
decorator_AlwaysNewChain(h, outer_middleware, inner_middleware) ==
  chain_of(h, <<inner_middleware, outer_middleware>>)

\* The decorator returned by middleware(outer_middleware), applied to
\* inner_middleware.
decorator(h, outer_middleware, inner_middleware) ==
  IF inner_middleware \in 1..Len(h) /\ h[inner_middleware].kind = "MiddlewareChain"
    THEN LET added == add_middleware(h, inner_middleware, outer_middleware)
         IN IF added.raised THEN added ELSE Returned(added.heap, inner_middleware)
    ELSE chain_of(h, <<inner_middleware, outer_middleware>>)

(***************************************************************************)
(* Contexts.  A context is created by the caller without a state store;    *)
(* the store (the attribute `states`) maps a type to the state last stored *)
(* for it.                                                                 *)
(***************************************************************************)
EmptyMap == [k \in {} |-> PyNone]

NewContext == [present |-> FALSE, states |-> EmptyMap]

\* _ensure_context as a bug would have it: the store is created on every
\* call.
ensure_context_Always(c) == [present |-> TRUE, states |-> EmptyMap]

\* MiddlewareState._ensure_context, on the context record c
ensure_context(c) ==
  IF ~c.present THEN [present |-> TRUE, states |-> EmptyMap] ELSE c

\* MiddlewareState.set_state as a bug would have it: the store is keyed by
\* the state and not by its type, so the type is never bound.
set_state_NoTypeKey(c, state) == ensure_context(c)

\* MiddlewareState.set_state
set_state(c, state) ==
  LET e == ensure_context(c)
  IN [e EXCEPT !.states =
        [ty \in DOMAIN e.states \cup {TypeOf(state)} |->
           IF ty = TypeOf(state) THEN state ELSE e.states[ty]]]

\* MiddlewareState.get_state: the context after the call and the value
\* returned (None when the type has no entry).
get_state(c, state_type) ==
  LET e == ensure_context(c)
  IN [ctx |-> e,
      value |-> IF state_type \in DOMAIN e.states
                  THEN e.states[state_type] ELSE PyNone]

\* kwargs[key] = value
SetItem(kwargs, key, value) ==
  [k \in DOMAIN kwargs \cup {key} |-> IF k = key THEN value ELSE kwargs[k]]

(***************************************************************************)
(* Invocations.  A frame is a pending call of unit.run (unit 0 is the      *)
(* terminal next) with the parameters it received; pc is "start" before    *)
(* its first step, "await" while it waits for the call above it on the     *)
(* stack, "resumed" once that call has returned got.  idx and acc are the  *)
(* position and the results of a group's loop, state the local variable of *)
(* MiddlewareState.run.  log is what the probes of the tests record: the   *)
(* call of the unit under test, each function body before and after its    *)
(* call of next, each state provided, and the terminal, each with the      *)
(* parameters the callee holds at that point.                              *)
(***************************************************************************)
Frame(unit, next, ctx, args, kwargs) ==
  [unit |-> unit, pc |-> "start", next |-> next, ctx |-> ctx, args |-> args,
   kwargs |-> kwargs, idx |-> 1, acc |-> <<>>, got |-> PyNone,
   state |-> PyNone]

Event(u, ph, f) ==
  [u |-> u, ph |-> ph, next |-> f.next, ctx |-> f.ctx, args |-> f.args,
   kwargs |-> f.kwargs, state |-> f.state]

Top(i) == stacks[i][Len(stacks[i])]

Running(i, kind, pc) ==
  /\ stacks[i] # <<>>
  /\ Top(i).unit # 0
  /\ heap[Top(i).unit].kind = kind
  /\ Top(i).pc = pc

\* The call as a bug would have it: the keyword arguments are not passed on.
CallNext_NoKwargs(next, ctx, args, kwargs) ==
  IF next = <<>>
    THEN Frame(0, <<>>, ctx, args, EmptyMap)
    ELSE Frame(Head(next), Tail(next), ctx, args, EmptyMap)

\* The call as a bug would have it: the callee gets the first context ever
\* created and not the one handed to next.
CallNext_SharedCtx(next, ctx, args, kwargs) ==
  IF next = <<>>
    THEN Frame(0, <<>>, 1, args, kwargs)
    ELSE Frame(Head(next), Tail(next), 1, args, kwargs)

\* next(*args, ctx=ctx, **kwargs): the frame of the call.  A closure built
\* by MiddlewareChain.run calls its unit's run with the closure's own next.
CallNext(next, ctx, args, kwargs) ==
  IF next = <<>>
    THEN Frame(0, <<>>, ctx, args, kwargs)
    ELSE Frame(Head(next), Tail(next), ctx, args, kwargs)

\* The top frame f suspends on the call `callee`.
Await(i, f, callee) ==
  stacks' = [stacks EXCEPT ![i] =
               Append([@ EXCEPT ![Len(@)] = [f EXCEPT !.pc = "await"]], callee)]

\* The top frame returns value to the frame that awaits it, or to the
\* caller of the invocation.
Return(i, value) ==
  LET rest == SubSeq(stacks[i], 1, Len(stacks[i]) - 1)
  IN IF rest = <<>>
       THEN /\ stacks' = [stacks EXCEPT ![i] = <<>>]
            /\ result' = [result EXCEPT ![i] = [status |-> "done", value |-> value]]
       ELSE /\ stacks' = [stacks EXCEPT ![i] =
                            [rest EXCEPT ![Len(rest)].pc = "resumed",
                                         ![Len(rest)].got = value]]
            /\ UNCHANGED result

\* A new exception instance, told by the unit whose body raises it (0: the
\* terminal).
Error(u) == Obj("Error", u)

\* The top frame raises exc: it ends, and the failure is delivered to the
\* frame that awaits it, or to the caller of the invocation.
Raise(i, exc) ==
  LET rest == SubSeq(stacks[i], 1, Len(stacks[i]) - 1)
  IN IF rest = <<>>
       THEN /\ stacks' = [stacks EXCEPT ![i] = <<>>]
            /\ result' = [result EXCEPT ![i] = [status |-> "raised", value |-> exc]]
       ELSE /\ stacks' = [stacks EXCEPT ![i] =
                            [rest EXCEPT ![Len(rest)].pc = "failed",
                                         ![Len(rest)].got = exc]]
            /\ UNCHANGED result

(***************************************************************************)
(* What a caller passes to the unit under test.                            *)
(***************************************************************************)
CallerArgs == {<<>>, <<Str("a")>>}
CallerKwargs == {EmptyMap, [k \in {"k"} |-> Str("caller")]}

\* await unit(*args, ctx=ctx, next=terminal, **kwargs) with a context the
\* caller has just created; Middleware.__call__ hands over to run.
CallUnit(i, unit, argss, kwargss) ==
  /\ result[i].status = "idle"
  /\ \E args \in argss, kwargs \in kwargss :
       LET f == Frame(unit, <<>>, Len(ctxs) + 1, args, kwargs)
       IN /\ ctxs' = Append(ctxs, NewContext)
          /\ stacks' = [stacks EXCEPT ![i] = <<f>>]
          /\ result' = [result EXCEPT ![i].status = "running"]
          /\ log' = [log EXCEPT ![i] = Append(@, Event(unit, "call", f))]
  /\ UNCHANGED <<heap, root, fresh, applied>>

CallWith(i, argss, kwargss) == CallUnit(i, root, argss, kwargss)

Call(i) == CallWith(i, CallerArgs, CallerKwargs)

\* A caller that makes its invocations one after the other.
Sequential(i) == \A j \in Inv : j < i => result[j].status = "done"

Invoke(i) == Sequential(i) /\ Call(i)

\* The terminal next of the tests: it logs T and returns "T".
Terminal(i) ==
  /\ stacks[i] # <<>>
  /\ Top(i).unit = 0
  /\ log' = [log EXCEPT ![i] = Append(@, Event(0, "T", Top(i)))]
  /\ Return(i, Str("T"))
  /\ UNCHANGED <<heap, ctxs, root, fresh, applied>>

\* A terminal next that fails: it logs "raise" and raises.
TerminalRaises(i) ==
  /\ stacks[i] # <<>>
  /\ Top(i).unit = 0
  /\ log' = [log EXCEPT ![i] = Append(@, Event(0, "raise", Top(i)))]
  /\ Raise(i, Error(0))
  /\ UNCHANGED <<heap, ctxs, root, fresh, applied>>

(***************************************************************************)
(* MiddlewareFunction.run forwards to the function fn, whose body is given *)
(* by its beh: it logs "before", then either returns beh.value without     *)
(* calling next (mode "return"), or calls next once (with a replaced       *)
(* context when newctx, with one more keyword argument when addkw), logs   *)
(* "after" and returns what next returned (mode "delegate") or beh.value   *)
(* in its place (mode "discard").  A body of mode "raise" logs "raise" and *)
(* raises in place of its call of next; one of mode "raiseafter" calls     *)
(* next and, once next has returned, logs "raise" and raises.              *)
(***************************************************************************)
MiddlewareFunction_run(i) ==
  /\ Running(i, "MiddlewareFunction", "start")
  /\ LET f == Top(i)
         beh == heap[heap[f.unit].fn].beh
         ctx == IF beh.newctx THEN Len(ctxs) + 1 ELSE f.ctx
         kwargs == IF beh.addkw
                     THEN SetItem(f.kwargs, "extra", Str("added"))
                     ELSE f.kwargs
     IN CASE beh.mode = "return" ->
               /\ log' = [log EXCEPT ![i] = Append(@, Event(f.unit, "before", f))]
               /\ Return(i, beh.value)
               /\ UNCHANGED ctxs
          [] beh.mode = "raise" ->
               /\ log' = [log EXCEPT ![i] =
                            @ \o <<Event(f.unit, "before", f),
                                   Event(f.unit, "raise", f)>>]
               /\ Raise(i, Error(f.unit))
               /\ UNCHANGED ctxs
          [] OTHER ->
               /\ log' = [log EXCEPT ![i] = Append(@, Event(f.unit, "before", f))]
               /\ Await(i, f, CallNext(f.next, ctx, f.args, kwargs))
               /\ ctxs' = IF beh.newctx THEN Append(ctxs, NewContext) ELSE ctxs
               /\ UNCHANGED result
  /\ UNCHANGED <<heap, root, fresh, applied>>

MiddlewareFunction_resume(i) ==
  /\ Running(i, "MiddlewareFunction", "resumed")
  /\ IF heap[heap[Top(i).unit].fn].beh.mode = "raiseafter"
       THEN /\ log' = [log EXCEPT ![i] =
                         Append(@, Event(Top(i).unit, "raise", Top(i)))]
            /\ Raise(i, Error(Top(i).unit))
       ELSE /\ log' = [log EXCEPT ![i] =
                         Append(@, Event(Top(i).unit, "after", Top(i)))]
            /\ Return(i, IF heap[heap[Top(i).unit].fn].beh.mode = "discard"
                           THEN heap[heap[Top(i).unit].fn].beh.value
                           ELSE Top(i).got)
  /\ UNCHANGED <<heap, ctxs, root, fresh, applied>>

(***************************************************************************)
(* MiddlewareChain.run                                                     *)
(***************************************************************************)
\* The fold of MiddlewareChain.run from member i on: each member is wrapped
\* around the next built so far.
RECURSIVE Fold(_, _, _)
Fold(collection, i, next) ==
  IF i > Len(collection)
    THEN next
    ELSE Fold(collection, i + 1, <<collection[i]>> \o next)

\* The composition as a bug would have it: the loop starts from the
\* terminal and not from the next the chain was given.
Compose_DropsNext(collection, next) == Fold(collection, 1, <<>>)

\* The composition as a bug would have it: the first member outermost.
Compose_FirstOutermost(collection, next) == collection \o next

\* The next that MiddlewareChain.run calls once its loop is over.
Compose(collection, next) == Fold(collection, 1, next)

MiddlewareChain_run(i) ==
  /\ Running(i, "MiddlewareChain", "start")
  /\ LET f == Top(i)
         next == Compose(heap[f.unit].collection, f.next)
     IN Await(i, f, CallNext(next, f.ctx, f.args, f.kwargs))
  /\ UNCHANGED <<heap, ctxs, result, log, root, fresh, applied>>

MiddlewareChain_return(i) ==
  /\ Running(i, "MiddlewareChain", "resumed")
  /\ Return(i, Top(i).got)
  /\ UNCHANGED <<heap, ctxs, log, root, fresh, applied>>

(***************************************************************************)
(* OneOfAll.run and AllOfAll.run                                           *)
(***************************************************************************)
\* The member call as a bug would have it: the members are nested as in a
\* chain, each getting the members stored before it as its continuation.
MemberCall_Chained(h, f) ==
  Frame(h[f.unit].collection[f.idx],
        Fold(SubSeq(h[f.unit].collection, 1, f.idx - 1), 1, f.next),
        f.ctx, f.args, f.kwargs)

\* mw.run(*args, ctx=ctx, next=next, **kwargs) for the member at f.idx of
\* the group whose frame is f.
MemberCall(h, f) ==
  Frame(h[f.unit].collection[f.idx], f.next, f.ctx, f.args, f.kwargs)

\* The loop of OneOfAll.run, about to fetch the member at f.idx.
OneOfAll_loop(i, f) ==
  IF f.idx > Len(heap[f.unit].collection)
    THEN Return(i, IGNORE)
    ELSE /\ Await(i, f, MemberCall(heap, f))
         /\ UNCHANGED result

OneOfAll_run(i) ==
  /\ Running(i, "OneOfAll", "start")
  /\ OneOfAll_loop(i, Top(i))
  /\ UNCHANGED <<heap, ctxs, log, root, fresh, applied>>

OneOfAll_resume(i) ==
  /\ Running(i, "OneOfAll", "resumed")
  /\ IF is_successful_result(Top(i).got)
       THEN Return(i, Top(i).got)
       ELSE OneOfAll_loop(i, [Top(i) EXCEPT !.idx = @ + 1])
  /\ UNCHANGED <<heap, ctxs, log, root, fresh, applied>>

\* The list comprehension as a bug would have it: IGNORE results are left
\* out of the tuple.
Collect_SkipIgnore(acc, value) ==
  IF value = IGNORE THEN acc ELSE Append(acc, value)

\* One more element of the list comprehension of AllOfAll.run.
Collect(acc, value) == Append(acc, value)

\* The list comprehension of AllOfAll.run, about to fetch the member at
\* f.idx.
AllOfAll_loop(i, f) ==
  IF f.idx > Len(heap[f.unit].collection)
    THEN Return(i, Tuple(f.acc))
    ELSE /\ Await(i, f, MemberCall(heap, f))
         /\ UNCHANGED result

AllOfAll_run(i) ==
  /\ Running(i, "AllOfAll", "start")
  /\ AllOfAll_loop(i, Top(i))
  /\ UNCHANGED <<heap, ctxs, log, root, fresh, applied>>

AllOfAll_resume(i) ==
  /\ Running(i, "AllOfAll", "resumed")
  /\ AllOfAll_loop(i, [Top(i) EXCEPT !.idx = @ + 1,
                                     !.acc = Collect(@, Top(i).got)])
  /\ UNCHANGED <<heap, ctxs, log, root, fresh, applied>>

(***************************************************************************)
(* MiddlewareState.run                                                     *)
(***************************************************************************)
\* The resolution as a bug would have it: the class is instantiated once
\* and the instance kept.
Resolve_Once(state, id) ==
  IF state.t = "class" /\ state.v \in ContextState
    THEN Obj(state.v, 0)
    ELSE state

\* The state MiddlewareState.run provides: a new instance, of identity id,
\* when the configured state is a subclass of ContextState.
Resolve(state, id) ==
  IF state.t = "class" /\ state.v \in ContextState
    THEN Obj(state.v, id)
    ELSE state

\* bool(key)
Truthy(key) == key.t = "str" /\ key.v # ""

\* The keyword arguments MiddlewareState.run forwards.
Inject(kwargs, key, state) ==
  IF Truthy(key) THEN SetItem(kwargs, key.v, state) ELSE kwargs

MiddlewareState_run(i) ==
  /\ Running(i, "MiddlewareState", "start")
  /\ LET f == Top(i)
         self == heap[f.unit]
         state == Resolve(self.state, fresh + 1)
         kwargs == Inject(f.kwargs, self.key, state)
     IN /\ fresh' = IF state = self.state THEN fresh ELSE fresh + 1
        /\ ctxs' = [ctxs EXCEPT ![f.ctx] = set_state(@, state)]
        /\ Await(i, [f EXCEPT !.kwargs = kwargs, !.state = state],
                 CallNext(f.next, f.ctx, f.args, kwargs))
        /\ log' = [log EXCEPT ![i] =
                     Append(@, Event(f.unit, "state",
                                     [f EXCEPT !.kwargs = kwargs, !.state = state]))]
  /\ UNCHANGED <<heap, result, root, applied>>

MiddlewareState_return(i) ==
  /\ Running(i, "MiddlewareState", "resumed")
  /\ Return(i, Top(i).got)
  /\ UNCHANGED <<heap, ctxs, log, root, fresh, applied>>

(***************************************************************************)
(* A failure of the awaited call.  No run method of the module, and no     *)
(* body of the tests, has a try statement: the failure leaves the awaiting *)
(* frame at its await expression and goes on to the frame below.           *)
(***************************************************************************)
\* The propagation as a bug would have it: a group takes the failure of a
\* member for a declined call and goes on with its loop.
Propagate_Swallowed(i) ==
  /\ stacks[i] # <<>>
  /\ Top(i).pc = "failed"
  /\ IF heap[Top(i).unit].kind \in {"OneOfAll", "AllOfAll"}
       THEN /\ stacks' = [stacks EXCEPT ![i][Len(stacks[i])] =
                           [@ EXCEPT !.pc = "resumed", !.got = IGNORE]]
            /\ UNCHANGED result
       ELSE Raise(i, Top(i).got)
  /\ UNCHANGED <<heap, ctxs, log, root, fresh, applied>>

Propagate(i) ==
  /\ stacks[i] # <<>>
  /\ Top(i).pc = "failed"
  /\ Raise(i, Top(i).got)
  /\ UNCHANGED <<heap, ctxs, log, root, fresh, applied>>

(***************************************************************************)
(* Spec: one invocation of a collection of any of the three kinds, built   *)
(* by collection_of from up to MaxMembers plain functions.                 *)
(***************************************************************************)
Delegate == [mode |-> "delegate", value |-> PyNone, newctx |-> FALSE, addkw |-> FALSE]
DelegateNewCtx == [Delegate EXCEPT !.newctx = TRUE]
DelegateAddKw == [Delegate EXCEPT !.addkw = TRUE]
Give(value) == [mode |-> "return", value |-> value, newctx |-> FALSE, addkw |-> FALSE]

\* Calls next with a replaced context and one more keyword argument, then
\* declines.
Discard == [mode |-> "discard", value |-> IGNORE, newctx |-> TRUE, addkw |-> TRUE]

Behaviours ==
  {Delegate, DelegateNewCtx, DelegateAddKw, Discard,
   Give(IGNORE), Give(Str("X")), Give(OK)}

Idle == [status |-> "idle", value |-> PyNone]

\* The heap after collection_of(kind, fns), fns the plain functions of the
\* bodies behs.
Built(kind, behs) ==
  collection_of([j \in 1..Len(behs) |-> Function(behs[j])], kind,
                [j \in 1..Len(behs) |-> j])

InitRun(built) ==
  /\ heap = built.heap
  /\ root = built.ref
  /\ ctxs = <<>>
  /\ stacks = [i \in Inv |-> <<>>]
  /\ result = [i \in Inv |-> Idle]
  /\ log = [i \in Inv |-> <<>>]
  /\ fresh = 1
  /\ applied = <<>>

Init ==
  \E kind \in CollectionKinds, n \in 0..MaxMembers :
    \E behs \in [1..n -> Behaviours] : InitRun(Built(kind, behs))

Next ==
  \/ Invoke(1)
  \/ Terminal(1)
  \/ MiddlewareFunction_run(1)
  \/ MiddlewareFunction_resume(1)
  \/ MiddlewareChain_run(1)
  \/ MiddlewareChain_return(1)
  \/ OneOfAll_run(1)
  \/ OneOfAll_resume(1)
  \/ AllOfAll_run(1)
  \/ AllOfAll_resume(1)

Spec == Init /\ [][Next]_vars

(***************************************************************************)
(* SpecDecorate: decorators @middleware(d) stacked on a plain function f,  *)
(* bottom one first, then one invocation of what the name f is bound to.   *)
(* Each d is a function defined for the purpose, passed as it is or        *)
(* already converted with as_middleware.  applied records, for each        *)
(* application, the argument of middleware (outer) and the value the       *)
(* decorator returned (ret).                                               *)
(***************************************************************************)
DecoratorBodies == {Delegate, Give(Str("X"))}

InitDecorate ==
  \E beh \in DecoratorBodies :
    InitRun(Returned(<<Function(beh)>>, 1))

Decorate ==
  /\ result[1].status = "idle"
  /\ Len(applied) < MaxDecorators
  /\ \E beh \in DecoratorBodies, converted \in BOOLEAN :
       LET defined == Returned(Append(heap, Function(beh)), Len(heap) + 1)
           outer == IF converted
                      THEN as_middleware(defined.heap, defined.ref)
                      ELSE defined
           coerced == middleware(outer.heap, outer.ref)
           decorated == decorator(coerced.heap, coerced.ref, root)
       IN /\ heap' = decorated.heap
          /\ root' = decorated.ref
          /\ applied' = Append(applied, [outer |-> outer.ref, ret |-> decorated.ref])
  /\ UNCHANGED <<ctxs, stacks, result, log, fresh>>

InvokeDecorated ==
  /\ applied # <<>>
  /\ Invoke(1)

NextDecorate ==
  \/ Decorate
  \/ InvokeDecorated
  \/ Terminal(1)
  \/ MiddlewareFunction_run(1)
  \/ MiddlewareFunction_resume(1)
  \/ MiddlewareChain_run(1)
  \/ MiddlewareChain_return(1)

SpecDecorate == InitDecorate /\ [][NextDecorate]_vars

(***************************************************************************)
(* SpecState: a chain of up to MaxInjectors MiddlewareState units, invoked *)
(* NumInv times, one invocation after the other, each with a context of    *)
(* its own.  The state configured is the class S (a subclass of            *)
(* ContextState), the class V (not one), or an instance of either; the key *)
(* is None, "k" (which the caller may pass too) or the empty string.       *)
(***************************************************************************)
StateConfigs == {Class("S"), Class("V"), Obj("S", 1), Obj("V", 1)}

KeyConfigs == {PyNone, Str("k"), Str("")}

Injectors == {MiddlewareState(state, key) : state \in StateConfigs, key \in KeyConfigs}

InitState ==
  \E n \in 1..MaxInjectors :
    \E units \in [1..n -> Injectors] :
      InitRun(chain_of(units, [j \in 1..n |-> j]))

InvokeState(i) ==
  /\ Sequential(i)
  /\ CallWith(i, {<<Str("a")>>}, CallerKwargs)

NextState ==
  \E i \in Inv :
    \/ InvokeState(i)
    \/ Terminal(i)
    \/ MiddlewareChain_run(i)
    \/ MiddlewareChain_return(i)
    \/ MiddlewareState_run(i)
    \/ MiddlewareState_return(i)

SpecState == InitState /\ [][NextState]_vars

(***************************************************************************)
(* The value a call returns when nothing else runs: Alone(h, next) is what *)
(* next(...) returns, next a continuation as in the frames, when every     *)
(* call is awaited to its end, the terminal returns "T" and no body        *)
(* raises.                                                                 *)
(***************************************************************************)
RECURSIVE Alone(_, _)
RECURSIVE AloneOneOfAll(_, _, _, _)
RECURSIVE AloneAllOfAll(_, _, _, _)

\* OneOfAll.run from its member idx on
AloneOneOfAll(h, collection, idx, next) ==
  IF idx > Len(collection)
    THEN IGNORE
    ELSE LET r == Alone(h, <<collection[idx]>> \o next)
         IN IF is_successful_result(r)
              THEN r
              ELSE AloneOneOfAll(h, collection, idx + 1, next)

\* The results of AllOfAll.run from its member idx on
AloneAllOfAll(h, collection, idx, next) ==
  IF idx > Len(collection)
    THEN <<>>
    ELSE <<Alone(h, <<collection[idx]>> \o next)>>
         \o AloneAllOfAll(h, collection, idx + 1, next)

Alone(h, next) ==
  IF next = <<>>
    THEN Str("T")
    ELSE LET self == h[Head(next)]
             rest == Tail(next)
         IN CASE self.kind = "MiddlewareFunction" ->
                   IF h[self.fn].beh.mode = "delegate"
                     THEN Alone(h, rest)
                     ELSE h[self.fn].beh.value
              [] self.kind = "MiddlewareState" -> Alone(h, rest)
              [] self.kind = "MiddlewareChain" ->
                   Alone(h, Compose(self.collection, rest))
              [] self.kind = "OneOfAll" ->
                   AloneOneOfAll(h, self.collection, 1, rest)
              [] OTHER -> Tuple(AloneAllOfAll(h, self.collection, 1, rest))

(***************************************************************************)
(* SpecConcurrent: two invocations of one collection whose steps           *)
(* interleave freely, each with a context of its own.  The collection, of  *)
(* any of the three kinds, has up to MaxShared members: functions and a    *)
(* MiddlewareState that provides a new instance of S per run by the key    *)
(* "k".                                                                    *)
(***************************************************************************)
ConcurrentItems ==
  {MiddlewareState(Class("S"), Str("k")), Function(Delegate),
   Function(DelegateNewCtx), Function(Give(Str("X")))}

InitConcurrent ==
  \E kind \in CollectionKinds, n \in 1..MaxShared :
    \E items \in [1..n -> ConcurrentItems] :
      InitRun(collection_of(items, kind, [j \in 1..n |-> j]))

InvokeConcurrent(i) == CallWith(i, {<<Str("a")>>}, {EmptyMap})

NextConcurrent ==
  \E i \in {1, 2} :
    \/ InvokeConcurrent(i)
    \/ Terminal(i)
    \/ MiddlewareFunction_run(i)
    \/ MiddlewareFunction_resume(i)
    \/ MiddlewareState_run(i)
    \/ MiddlewareState_return(i)
    \/ MiddlewareChain_run(i)
    \/ MiddlewareChain_return(i)
    \/ OneOfAll_run(i)
    \/ OneOfAll_resume(i)
    \/ AllOfAll_run(i)
    \/ AllOfAll_resume(i)

SpecConcurrent == InitConcurrent /\ [][NextConcurrent]_vars

(***************************************************************************)
(* SpecFail: one invocation of a collection of any of the three kinds      *)
(* whose members may raise, before their call of next or after it, with a  *)
(* terminal that returns or raises.  State injectors among the members     *)
(* write into the context before the failure.                              *)
(***************************************************************************)
Fail == [mode |-> "raise", value |-> PyNone, newctx |-> FALSE, addkw |-> FALSE]
FailAfter == [Fail EXCEPT !.mode = "raiseafter"]

FailItems ==
  {MiddlewareState(Class("S"), Str("k")), MiddlewareState(Obj("V", 1), PyNone),
   Function(Delegate), Function(Fail), Function(FailAfter),
   Function(Give(IGNORE)), Function(Give(Str("X")))}

InitFail ==
  \E kind \in CollectionKinds, n \in 1..MaxMembers :
    \E items \in [1..n -> FailItems] :
      InitRun(collection_of(items, kind, [j \in 1..n |-> j]))

InvokeFail == CallWith(1, {<<Str("a")>>}, {EmptyMap})

NextFail ==
  \/ InvokeFail
  \/ Terminal(1)
  \/ TerminalRaises(1)
  \/ MiddlewareFunction_run(1)
  \/ MiddlewareFunction_resume(1)
  \/ MiddlewareState_run(1)
  \/ MiddlewareState_return(1)
  \/ MiddlewareChain_run(1)
  \/ MiddlewareChain_return(1)
  \/ OneOfAll_run(1)
  \/ OneOfAll_resume(1)
  \/ AllOfAll_run(1)
  \/ AllOfAll_resume(1)
  \/ Propagate(1)

SpecFail == InitFail /\ [][NextFail]_vars

(***************************************************************************)
(* SpecAdd: add_middleware calls, in any order, on two collections: one of *)
(* any of the three kinds (root) and a chain.  The values passed are None  *)
(* (0), two plain functions, the two MiddlewareFunction made from them, a  *)
(* MiddlewareState and the two collections themselves.  applied records,   *)
(* for each call, its target (self) and argument (arg), whether it raised  *)
(* ValueError, what it returned (ret), the target before and after the     *)
(* call, and the fn of the argument at the time of the call.               *)
(***************************************************************************)
AddPool ==
  <<Function(Delegate), MiddlewareFunction(1),
    Function(Give(Str("X"))), MiddlewareFunction(3),
    MiddlewareState(Obj("V", 1), PyNone),
    MiddlewareCollection("MiddlewareChain")>>

AddTargets == {Len(AddPool), Len(AddPool) + 1}

InitAdd ==
  \E kind \in CollectionKinds :
    InitRun(Returned(Append(AddPool, MiddlewareCollection(kind)),
                     Len(AddPool) + 1))

Add ==
  /\ Len(applied) < MaxAdds
  /\ \E self \in AddTargets, arg \in 0..Len(heap) :
       LET added == add_middleware(heap, self, arg)
       IN /\ heap' = added.heap
          /\ applied' = Append(applied,
               [self |-> self, arg |-> arg, raised |-> added.raised,
                ret |-> added.ref, before |-> heap[self],
                after |-> added.heap[self],
                fn |-> IF IsMiddleware(heap, arg) THEN heap[arg].fn ELSE 0])
  /\ UNCHANGED <<ctxs, stacks, result, log, root, fresh>>

NextAdd == Add

SpecAdd == InitAdd /\ [][NextAdd]_vars

(***************************************************************************)
(* SpecReplace: two invocations, interleaved freely, of one chain of up to *)
(* MaxMembers functions, some of which hand a context of their own making  *)
(* to next.                                                                *)
(***************************************************************************)
ReplaceBodies == {Delegate, DelegateNewCtx, Give(Str("X"))}

InitReplace ==
  \E n \in 1..MaxMembers :
    \E behs \in [1..n -> ReplaceBodies] : InitRun(Built("MiddlewareChain", behs))

NextReplace ==
  \E i \in {1, 2} :
    \/ InvokeConcurrent(i)
    \/ Terminal(i)
    \/ MiddlewareFunction_run(i)
    \/ MiddlewareFunction_resume(i)
    \/ MiddlewareChain_run(i)
    \/ MiddlewareChain_return(i)

SpecReplace == InitReplace /\ [][NextReplace]_vars

(***************************************************************************)
(* SpecSuccess: is_successful_result(value) for one value, held in         *)
(* applied; the value returned is left in result[1].  The values are the   *)
(* two enum members, None, booleans, strings, an object, a class and the   *)
(* tuples of up to MaxTuple of these: values whose == is the built-in one. *)
(***************************************************************************)
Scalars ==
  {OK, IGNORE, PyNone, PyBool(FALSE), PyBool(TRUE), Str(""), Str("IGNORE"),
   Obj("V", 1), Class("S")}

Values ==
  Scalars \cup {Tuple(xs) : xs \in UNION {[1..n -> Scalars] : n \in 0..MaxTuple}}

InitSuccess ==
  /\ heap = <<>>
  /\ root = 0
  /\ ctxs = <<>>
  /\ stacks = [i \in Inv |-> <<>>]
  /\ result = [i \in Inv |-> Idle]
  /\ log = [i \in Inv |-> <<>>]
  /\ fresh = 1
  /\ \E value \in Values : applied = <<value>>

IsSuccessful ==
  /\ result[1].status = "idle"
  /\ result' = [result EXCEPT ![1] =
                  [status |-> "done",
                   value |-> PyBool(is_successful_result(applied[1]))]]
  /\ UNCHANGED <<heap, ctxs, stacks, log, root, fresh, applied>>

NextSuccess == IsSuccessful

SpecSuccess == InitSuccess /\ [][NextSuccess]_vars

(***************************************************************************)
(* SpecNested: the same units, up to MaxMembers of them, in a chain        *)
(* chain_of(units) (root) and in a chain where the members from..to are    *)
(* held by a chain of their own, chain_of([.., chain_of(units[from..to]),  *)
(* ..]) (applied[1]).  Invocation 1 calls the first, invocation 2 then     *)
(* calls the second.                                                       *)
(***************************************************************************)
NestedItems ==
  {Function(Delegate), Function(DelegateAddKw), Function(Give(Str("X"))),
   Function(Discard), MiddlewareState(Obj("V", 1), Str("k"))}

\* The heap after both chains are built: flat is the first chain, ref the
\* second.
Nested(items, from, to) ==
  LET flat == chain_of(items, [j \in 1..Len(items) |-> j])
      units == flat.heap[flat.ref].collection
      inner == chain_of(flat.heap, SubSeq(units, from, to))
      outer == chain_of(inner.heap,
                        SubSeq(units, 1, from - 1) \o <<inner.ref>>
                          \o SubSeq(units, to + 1, Len(units)))
  IN [heap |-> outer.heap, flat |-> flat.ref, ref |-> outer.ref]

InitNested ==
  \E n \in 1..MaxMembers :
    \E items \in [1..n -> NestedItems], from \in 1..n :
      \E to \in from..n :
        LET built == Nested(items, from, to)
        IN /\ heap = built.heap
           /\ root = built.flat
           /\ applied = <<built.ref>>
           /\ ctxs = <<>>
           /\ stacks = [i \in Inv |-> <<>>]
           /\ result = [i \in Inv |-> Idle]
           /\ log = [i \in Inv |-> <<>>]
           /\ fresh = 1

InvokeFlat == CallUnit(1, root, {<<Str("a")>>}, {EmptyMap})

InvokeNested ==
  /\ result[1].status = "done"
  /\ CallUnit(2, applied[1], {<<Str("a")>>}, {EmptyMap})

NextNested ==
  \/ InvokeFlat
  \/ InvokeNested
  \/ \E i \in {1, 2} :
       \/ Terminal(i)
       \/ MiddlewareFunction_run(i)
       \/ MiddlewareFunction_resume(i)
       \/ MiddlewareState_run(i)
       \/ MiddlewareState_return(i)
       \/ MiddlewareChain_run(i)
       \/ MiddlewareChain_return(i)

SpecNested == InitNested /\ [][NextNested]_vars

(***************************************************************************)
(* SpecLate: two invocations of one chain, interleaved freely with each    *)
(* other and with the addition of up to MaxLate units to the chain, each a *)
(* function defined for the purpose and added by add_middleware or by      *)
(* middleware(fn)(chain).  applied records, for each addition, the unit    *)
(* added and in which invocations run had started (started) and in which   *)
(* it was suspended (suspended) when the addition was made.                *)
(***************************************************************************)
LateBodies == {Delegate, Give(Str("X"))}

InitLate ==
  \E n \in 0..1 :
    \E behs \in [1..n -> LateBodies] : InitRun(Built("MiddlewareChain", behs))

\* The run of the chain called by invocation i has read the collection.
Started(i) ==
  /\ result[i].status # "idle"
  /\ stacks[i] # <<>> => stacks[i][1].pc # "start"

\* The run of the chain called by invocation i awaits the next it built.
Suspended(i) == stacks[i] # <<>> /\ stacks[i][1].pc = "await"

Late(unit) ==
  [unit |-> unit, started |-> {i \in Inv : Started(i)},
   suspended |-> {i \in Inv : Suspended(i)}]

\* chain.add_middleware(as_middleware(fn))
AddLate ==
  /\ Len(applied) < MaxLate
  /\ \E beh \in LateBodies :
       LET unit == as_middleware(Append(heap, Function(beh)), Len(heap) + 1)
           added == add_middleware(unit.heap, root, unit.ref)
       IN /\ heap' = added.heap
          /\ applied' = Append(applied, Late(added.ref))
  /\ UNCHANGED <<ctxs, stacks, result, log, root, fresh>>

\* middleware(fn)(chain); the chain is called by the same reference later.
DecorateLate ==
  /\ Len(applied) < MaxLate
  /\ \E beh \in LateBodies :
       LET outer == middleware(Append(heap, Function(beh)), Len(heap) + 1)
           decorated == decorator(outer.heap, outer.ref, root)
       IN /\ heap' = decorated.heap
          /\ applied' = Append(applied, Late(outer.ref))
  /\ UNCHANGED <<ctxs, stacks, result, log, root, fresh>>

NextLate ==
  \/ AddLate
  \/ DecorateLate
  \/ \E i \in {1, 2} :
       \/ InvokeConcurrent(i)
       \/ Terminal(i)
       \/ MiddlewareFunction_run(i)
       \/ MiddlewareFunction_resume(i)
       \/ MiddlewareChain_run(i)
       \/ MiddlewareChain_return(i)

SpecLate == InitLate /\ [][NextLate]_vars

(***************************************************************************)
(* Observations used by the properties.                                    *)
(***************************************************************************)
Members == heap[root].collection

\* The body of the function that the MiddlewareFunction u adapts.
Body(u) == heap[heap[u].fn].beh

CallsNext(u) == Body(u).mode \notin {"return", "raise"}

\* What the member u returns when the terminal returns "T".
MemberResult(u) == IF Body(u).mode = "delegate" THEN Str("T") ELSE Body(u).value

Position(u) == CHOOSE j \in 1..Len(Members) : Members[j] = u

Mark(u, ph) == [u |-> u, ph |-> ph]

Trace(i) == [k \in 1..Len(log[i]) |-> Mark(log[i][k].u, log[i][k].ph)]

IsBefore(e) == e.ph = "before"

IsT(e) == e.ph = "T"

\* The units whose bodies were entered, in the order they were entered.
Entered(i) ==
  LET es == SelectSeq(log[i], IsBefore) IN [k \in 1..Len(es) |-> es[k].u]

TerminalCalls(i) == Len(SelectSeq(log[i], IsT))

IsPrefix(s, t) == Len(s) <= Len(t) /\ \A k \in 1..Len(s) : s[k] = t[k]

Done(i) == result[i].status = "done"

SameParameters(e, d) ==
  e.next = d.next /\ e.ctx = d.ctx /\ e.args = d.args /\ e.kwargs = d.kwargs

(***************************************************************************)
(* Properties of one invocation (Spec).                                    *)
(***************************************************************************)
AllDelegate == \A j \in 1..Len(Members) : Body(Members[j]).mode = "delegate"

DelegationTrace ==
  <<Mark(root, "call")>>
  \o [k \in 1..Len(Members) |-> Mark(Members[Len(Members) + 1 - k], "before")]
  \o <<Mark(0, "T")>>
  \o [k \in 1..Len(Members) |-> Mark(Members[k], "after")]

\* C1: in a chain whose members m1..mn all delegate, the bodies are entered
\* in the order mn, ..., m1, then the terminal runs, and they complete in the
\* order m1, ..., mn; the chain returns the terminal's "T".  For add(A) then
\* add(B) the log is B-before, A-before, T, A-after, B-after.
C1_DelegationOrder ==
  (heap[root].kind = "MiddlewareChain" /\ AllDelegate) =>
     /\ IsPrefix(Trace(1), DelegationTrace)
     /\ Done(1) => (Trace(1) = DelegationTrace /\ result[1].value = Str("T"))

C1_Witness ==
  /\ heap[root].kind = "MiddlewareChain" /\ AllDelegate /\ Done(1)
  /\ Len(Members) = 2
  /\ Trace(1) = <<Mark(root, "call"), Mark(Members[2], "before"),
                  Mark(Members[1], "before"), Mark(0, "T"),
                  Mark(Members[1], "after"), Mark(Members[2], "after")>>

\* C2 as claimed: in a chain of two or more members the first-added member
\* is the one the composed function calls and the last-added member is the
\* one whose next is the terminal.
C2_FirstAddedOutermost ==
  (heap[root].kind = "MiddlewareChain" /\ Len(Members) >= 2) =>
     /\ Len(stacks[1]) >= 2 => stacks[1][2].unit = Members[1]
     /\ \A p \in 2..Len(stacks[1]) :
          (stacks[1][p].unit # 0 /\ stacks[1][p].next = <<>>) =>
             stacks[1][p].unit = Members[Len(Members)]

\* C2, amended: in a chain of two or more members the last-added member is
\* the one the composed function calls, and a member's next is the terminal
\* exactly when it is the first-added member.
C2_LastAddedOutermost ==
  (heap[root].kind = "MiddlewareChain" /\ Len(Members) >= 2) =>
     /\ Len(stacks[1]) >= 2 => stacks[1][2].unit = Members[Len(Members)]
     /\ \A p \in 2..Len(stacks[1]) :
          stacks[1][p].unit # 0 =>
            (stacks[1][p].next = <<>> <=> stacks[1][p].unit = Members[1])

C2_Witness ==
  /\ heap[root].kind = "MiddlewareChain" /\ Len(Members) >= 2
  /\ Len(stacks[1]) >= 3
  /\ stacks[1][2].unit = Members[Len(Members)]
  /\ Top(1).unit = Members[1] /\ Top(1).next = <<>>

\* C3: in a chain, a member's body is entered only if every member added
\* after it was entered before and calls next, and the terminal runs only
\* if every member calls next.
C3_ShortCircuit ==
  heap[root].kind = "MiddlewareChain" =>
    \A k \in 1..Len(log[1]) :
      /\ IsBefore(log[1][k]) =>
           \A j \in 1..Len(Members) : j > Position(log[1][k].u) =>
             /\ CallsNext(Members[j])
             /\ \E k2 \in 1..(k - 1) :
                  IsBefore(log[1][k2]) /\ log[1][k2].u = Members[j]
      /\ IsT(log[1][k]) => \A j \in 1..Len(Members) : CallsNext(Members[j])

C3_Witness ==
  /\ heap[root].kind = "MiddlewareChain" /\ Done(1)
  /\ \E j \in 2..Len(Members) :
       /\ ~CallsNext(Members[j])
       /\ \E k \in 1..Len(Entered(1)) : Entered(1)[k] = Members[j]
       /\ \A k \in 1..Len(Entered(1)) : Position(Entered(1)[k]) >= j
  /\ TerminalCalls(1) = 0

\* The positions of the members whose result is not IGNORE.
Successes == {j \in 1..Len(Members) : MemberResult(Members[j]) # IGNORE}

FirstSuccess == CHOOSE j \in Successes : \A j2 \in Successes : j <= j2

\* C4: a OneOfAll enters its members in storage order up to and including
\* the first whose result is not IGNORE and returns that result; no member
\* after it is entered.  When every member returns IGNORE, or there is no
\* member, every member is entered and the group returns IGNORE.
C4_FirstSuccess ==
  heap[root].kind = "OneOfAll" =>
    /\ IsPrefix(Entered(1), Members)
    /\ Successes # {} => Len(Entered(1)) <= FirstSuccess
    /\ Done(1) =>
         IF Successes = {}
           THEN result[1].value = IGNORE /\ Entered(1) = Members
           ELSE /\ result[1].value = MemberResult(Members[FirstSuccess])
                /\ Entered(1) = SubSeq(Members, 1, FirstSuccess)

\* M1 returns IGNORE, M2 returns "X", M3 is never entered.
C4_Witness ==
  /\ heap[root].kind = "OneOfAll" /\ Done(1)
  /\ Len(Members) = 3
  /\ MemberResult(Members[1]) = IGNORE
  /\ MemberResult(Members[2]) = Str("X")
  /\ result[1].value = Str("X")
  /\ Entered(1) = <<Members[1], Members[2]>>

\* C5: an AllOfAll enters every member once, in storage order, whatever the
\* members return, and returns the tuple of their results, IGNORE included;
\* the tuple is a successful result, never IGNORE, also when it is empty or
\* holds nothing but IGNORE.
C5_AllResults ==
  heap[root].kind = "AllOfAll" =>
    /\ IsPrefix(Entered(1), Members)
    /\ Done(1) =>
         /\ Entered(1) = Members
         /\ result[1].value.t = "tuple"
         /\ Len(result[1].value.items) = Len(Members)
         /\ \A j \in 1..Len(Members) :
              result[1].value.items[j] = MemberResult(Members[j])
         /\ result[1].value # IGNORE
         /\ is_successful_result(result[1].value)

\* Every member returned IGNORE and the group returned the tuple of them.
C5_Witness ==
  /\ heap[root].kind = "AllOfAll" /\ Done(1)
  /\ Len(Members) >= 2
  /\ \A j \in 1..Len(Members) : MemberResult(Members[j]) = IGNORE
  /\ result[1].value = Tuple([j \in 1..Len(Members) |-> IGNORE])

\* C6: in a OneOfAll and in an AllOfAll every member that is entered holds
\* the next, ctx, positional and keyword arguments the group was called
\* with (its next is the terminal, never another member), whatever the
\* members before it passed on, and the terminal has run once for each
\* entered member that calls next.
C6_SameParameters ==
  heap[root].kind \in {"OneOfAll", "AllOfAll"} =>
    /\ \A k \in 1..Len(log[1]) :
         IsBefore(log[1][k]) =>
           SameParameters(log[1][k], log[1][1]) /\ log[1][k].next = <<>>
    /\ Done(1) =>
         TerminalCalls(1) =
           Cardinality({k \in 1..Len(Entered(1)) : CallsNext(Entered(1)[k])})

\* The first member passed a replaced context and one more keyword argument
\* to the terminal, and the second member was entered after it.
C6_Witness ==
  /\ heap[root].kind \in {"OneOfAll", "AllOfAll"}
  /\ Len(Entered(1)) >= 2
  /\ Body(Members[1]) = Discard
  /\ \E k \in 1..Len(log[1]) :
       /\ IsT(log[1][k])
       /\ log[1][k].ctx # log[1][1].ctx
       /\ log[1][k].kwargs # log[1][1].kwargs
  /\ SameParameters(log[1][Len(log[1])], log[1][1])
  /\ IsBefore(log[1][Len(log[1])])

\* C7: an empty chain calls the terminal once, with the positional
\* arguments, the ctx and the keyword arguments the chain was called with,
\* and returns what the terminal returned.
C7_EmptyChain ==
  (heap[root].kind = "MiddlewareChain" /\ Members = <<>>) =>
    /\ Len(log[1]) <= 2
    /\ Len(log[1]) = 2 => (IsT(log[1][2]) /\ SameParameters(log[1][2], log[1][1]))
    /\ Done(1) => (TerminalCalls(1) = 1 /\ result[1].value = Str("T"))

C7_Witness ==
  /\ heap[root].kind = "MiddlewareChain" /\ Members = <<>> /\ Done(1)
  /\ log[1][2].args = <<Str("a")>>
  /\ "k" \in DOMAIN log[1][2].kwargs

(***************************************************************************)
(* Properties of stacked decorators (SpecDecorate).                        *)
(***************************************************************************)
\* The unit that middleware(outer) appends: outer itself when it is a
\* middleware, else an adapter of the function outer.
IsUnitOf(u, outer) ==
  IF heap[outer].kind = "Function"
    THEN heap[u].kind = "MiddlewareFunction" /\ heap[u].fn = outer
    ELSE u = outer

Chains == {o \in 1..Len(heap) : heap[o].kind = "MiddlewareChain"}

\* C8: once decorators d1..dk are stacked on the function f (object 1), f is
\* bound to the one chain there is, returned by every application; its
\* members are f, d1, ..., dk, none of them a chain, and when it is run the
\* unit of the topmost decorator dk is the one the chain calls first.
C8_OneChain ==
  applied # <<>> =>
    /\ Chains = {root}
    /\ \A k \in 1..Len(applied) : applied[k].ret = root
    /\ Len(Members) = Len(applied) + 1
    /\ IsUnitOf(Members[1], 1)
    /\ \A k \in 1..Len(applied) : IsUnitOf(Members[k + 1], applied[k].outer)
    /\ \A j \in 1..Len(Members) : heap[Members[j]].kind # "MiddlewareChain"
    /\ Len(stacks[1]) >= 2 =>
         IsUnitOf(stacks[1][2].unit, applied[Len(applied)].outer)

C8_Witness ==
  /\ Len(applied) >= 2
  /\ Len(stacks[1]) >= 2
  /\ Len(Members) = Len(applied) + 1
  /\ stacks[1][2].unit = Members[Len(Members)]

(***************************************************************************)
(* Properties of the state injector (SpecState).                           *)
(***************************************************************************)
\* In invocation i the MiddlewareState at position p of the stack has just
\* called its next: the call is the top frame and has not taken a step.
JustCalledNext(i, p) ==
  /\ p + 1 = Len(stacks[i])
  /\ stacks[i][p].unit # 0
  /\ heap[stacks[i][p].unit].kind = "MiddlewareState"
  /\ stacks[i][p].pc = "await"
  /\ stacks[i][p + 1].pc = "start"

PerRun(state) == state.t = "class" /\ state.v \in ContextState

\* The state that run has resolved is an instance of the configured class
\* when that class subclasses ContextState, the configured state otherwise.
IsResolved(state, configured) ==
  IF PerRun(configured)
    THEN state.t = "obj" /\ state.v = configured.v
    ELSE state = configured

\* C9: when a MiddlewareState calls its next, the state store of the ctx it
\* passes maps the type of the resolved state to that state, with or
\* without a key; and with a key (a parameter name, non-empty) the keyword
\* arguments it passes bind the key to that same state, whatever the caller
\* had passed for it.
C9_StateProvided ==
  \A i \in Inv : \A p \in 1..Len(stacks[i]) :
    JustCalledNext(i, p) =>
      LET self == heap[stacks[i][p].unit]
          state == stacks[i][p].state
          callee == stacks[i][p + 1]
          store == ctxs[callee.ctx]
      IN /\ IsResolved(state, self.state)
         /\ store.present
         /\ TypeOf(state) \in DOMAIN store.states
         /\ store.states[TypeOf(state)] = state
         /\ (self.key.t = "str" /\ self.key.v # "") =>
              /\ self.key.v \in DOMAIN callee.kwargs
              /\ callee.kwargs[self.key.v] = state

\* An injector with key "k" has called next in an invocation whose caller
\* passed k itself.
C9_Witness ==
  \E i \in Inv : \E p \in 1..Len(stacks[i]) :
    /\ JustCalledNext(i, p)
    /\ heap[stacks[i][p].unit].key = Str("k")
    /\ "k" \in DOMAIN log[i][1].kwargs
    /\ stacks[i][p + 1].kwargs["k"] = stacks[i][p].state
    /\ stacks[i][p + 1].kwargs["k"] # Str("caller")

IsState(e) == e.ph = "state"

\* C10: a MiddlewareState configured with a subclass of ContextState
\* provides different instances in any two invocations of the chain, and
\* in one invocation the instance in the store of ctx is the one passed by
\* key; configured with anything else it provides the configured value
\* itself in every invocation.
C10_FreshPerRun ==
  /\ \A i, j \in Inv : \A k \in 1..Len(log[i]) : \A l \in 1..Len(log[j]) :
       (IsState(log[i][k]) /\ IsState(log[j][l]) /\ log[i][k].u = log[j][l].u) =>
          IF PerRun(heap[log[i][k].u].state)
            THEN i # j => log[i][k].state # log[j][l].state
            ELSE /\ log[i][k].state = heap[log[i][k].u].state
                 /\ log[j][l].state = heap[log[i][k].u].state
  /\ \A i \in Inv : \A p \in 1..Len(stacks[i]) :
       (JustCalledNext(i, p) /\ PerRun(heap[stacks[i][p].unit].state)) =>
          LET self == heap[stacks[i][p].unit]
              callee == stacks[i][p + 1]
          IN /\ log[i][Len(log[i])].state = ctxs[callee.ctx].states[self.state.v]
             /\ (self.key.t = "str" /\ self.key.v # "") =>
                  callee.kwargs[self.key.v] = ctxs[callee.ctx].states[self.state.v]

\* Both invocations are over; an injector of the class S provided two
\* different instances and an injector of a shared value the same value.
C10_Witness ==
  /\ Done(1) /\ Done(2)
  /\ \E k \in 1..Len(log[1]) : \E l \in 1..Len(log[2]) :
       /\ IsState(log[1][k]) /\ IsState(log[2][l])
       /\ log[1][k].u = log[2][l].u
       /\ PerRun(heap[log[1][k].u].state)
       /\ log[1][k].state # log[2][l].state
  /\ \E k \in 1..Len(log[1]) : \E l \in 1..Len(log[2]) :
       /\ IsState(log[1][k]) /\ IsState(log[2][l])
       /\ log[1][k].u = log[2][l].u
       /\ ~PerRun(heap[log[1][k].u].state)
       /\ log[1][k].state = log[2][l].state

(***************************************************************************)
(* SpecStore: a caller makes up to MaxOps calls of set_state and get_state *)
(* on one context, which starts without a store, with an empty store or    *)
(* with a store that holds an entry.  log[1] is the history: the context   *)
(* at the start, then each call with its argument (value for set_state,    *)
(* type for get_state), what it returned (ret) and the context after it    *)
(* (ctx).                                                                  *)
(***************************************************************************)
StoreValues == {Obj("S", 1), Obj("S", 2), Obj("V", 1), Class("S")}

StoreTypes == {"S", "V", "type"}

StoreContexts ==
  {NewContext,
   [present |-> TRUE, states |-> EmptyMap],
   [present |-> TRUE, states |-> [ty \in {"V"} |-> Obj("V", 7)]]}

Op(op, type, value, ret, c) ==
  [op |-> op, type |-> type, value |-> value, ret |-> ret, ctx |-> c]

InitStore ==
  \E c \in StoreContexts :
    /\ heap = <<>>
    /\ root = 0
    /\ ctxs = <<c>>
    /\ stacks = [i \in Inv |-> <<>>]
    /\ result = [i \in Inv |-> Idle]
    /\ log = [i \in Inv |-> IF i = 1 THEN <<Op("new", "", PyNone, PyNone, c)>> ELSE <<>>]
    /\ fresh = 1
    /\ applied = <<>>

SetState ==
  /\ Len(log[1]) <= MaxOps
  /\ \E state \in StoreValues :
       LET c == set_state(ctxs[1], state)
       IN /\ ctxs' = [ctxs EXCEPT ![1] = c]
          /\ log' = [log EXCEPT ![1] =
                       Append(@, Op("set", TypeOf(state), state, PyNone, c))]
  /\ UNCHANGED <<heap, stacks, result, root, fresh, applied>>

GetState ==
  /\ Len(log[1]) <= MaxOps
  /\ \E state_type \in StoreTypes :
       LET r == get_state(ctxs[1], state_type)
       IN /\ ctxs' = [ctxs EXCEPT ![1] = r.ctx]
          /\ log' = [log EXCEPT ![1] =
                       Append(@, Op("get", state_type, PyNone, r.value, r.ctx))]
  /\ UNCHANGED <<heap, stacks, result, root, fresh, applied>>

NextStore == SetState \/ GetState

SpecStore == InitStore /\ [][NextStore]_vars

(***************************************************************************)
(* Properties of the state store (SpecStore).                              *)
(***************************************************************************)
\* The calls before call k that stored a value of type ty.
SetsBefore(k, ty) ==
  {j \in 2..(k - 1) : log[1][j].op = "set" /\ log[1][j].type = ty}

\* What get_state is to return for ty at call k: the value of the latest
\* such set_state, else the entry the context started with, else None.
Stored(k, ty) ==
  IF SetsBefore(k, ty) # {}
    THEN log[1][CHOOSE j \in SetsBefore(k, ty) :
                  \A j2 \in SetsBefore(k, ty) : j2 <= j].value
    ELSE IF ty \in DOMAIN log[1][1].ctx.states
           THEN log[1][1].ctx.states[ty]
           ELSE PyNone

\* Every entry of the store c is an entry of the store d.
Kept(c, d) ==
  \A ty \in DOMAIN c.states :
    ty \in DOMAIN d.states /\ d.states[ty] = c.states[ty]

\* C11: get_state returns the value last stored by set_state for the type
\* asked, None when there is none; set_state of a value of type T leaves
\* the entries of the other types as they were; and no call, get_state
\* included, loses an entry that the store held before it.
C11_StateStore ==
  \A k \in 2..Len(log[1]) :
    LET call == log[1][k]
        before == log[1][k - 1].ctx
    IN /\ call.op = "get" =>
            /\ call.ret = Stored(k, call.type)
            /\ Kept(before, call.ctx) /\ Kept(call.ctx, before)
       /\ call.op = "set" =>
            /\ call.ctx.states[call.type] = call.value
            /\ \A ty \in DOMAIN before.states \ {call.type} :
                 ty \in DOMAIN call.ctx.states
                   /\ call.ctx.states[ty] = before.states[ty]
            /\ DOMAIN call.ctx.states = DOMAIN before.states \cup {call.type}
       /\ call.ctx.present
       /\ call.ctx = ctxs[1] \/ k < Len(log[1])

\* Two values of type S and one of type V were stored, then get_state
\* returned the second value of type S.
C11_Witness ==
  /\ Len(log[1]) = 5
  /\ log[1][2].op = "set" /\ log[1][2].value = Obj("S", 1)
  /\ log[1][3].op = "set" /\ log[1][3].value = Obj("V", 1)
  /\ log[1][4].op = "set" /\ log[1][4].value = Obj("S", 2)
  /\ log[1][5].op = "get" /\ log[1][5].type = "S"
  /\ log[1][5].ret = Obj("S", 2)
  /\ ctxs[1].states["V"] = Obj("V", 1)

(***************************************************************************)
(* Properties of interleaved invocations (SpecConcurrent).                 *)
(***************************************************************************)
\* The instances that the state injectors created in invocation i.
Created(i) ==
  {log[i][k].state : k \in {k \in 1..Len(log[i]) : IsState(log[i][k])}}

IsInstance(value) == value.t = "obj" /\ value.v \in ContextState

\* The instances that the members and the terminal of invocation i have been
\* passed as keyword arguments, or can read from the store of the context
\* they hold.
Observed(i) ==
  UNION {{log[i][k].kwargs[key] : key \in DOMAIN log[i][k].kwargs} :
           k \in 1..Len(log[i])}
  \cup UNION {{stacks[i][p].kwargs[key] : key \in DOMAIN stacks[i][p].kwargs} :
                p \in 1..Len(stacks[i])}
  \cup UNION {{ctxs[stacks[i][p].ctx].states[ty] :
                 ty \in DOMAIN ctxs[stacks[i][p].ctx].states} :
                p \in 1..Len(stacks[i])}

Isolated ==
  \A i \in Inv :
    /\ \A value \in Observed(i) : IsInstance(value) => value \in Created(i)
    /\ \A j \in Inv \ {i} : Created(i) \cap Created(j) = {}
    /\ Done(i) => result[i].value = Alone(heap, <<root>>)

\* C12: however the steps of the invocations of one collection interleave,
\* each with its own context and a per-run state, the members of an
\* invocation see no state instance but the ones created in that
\* invocation, each invocation returns what it returns when run alone, and
\* no step of run changes the members or the fn of any object.
C12_NoInterference == [][heap' = heap]_vars /\ []Isolated

\* Two invocations are suspended at once, each having created its own
\* instance, and one of them has a member looking at its instance.
C12_Witness ==
  /\ Created(1) # {} /\ Created(2) # {}
  /\ stacks[1] # <<>> /\ stacks[2] # <<>>
  /\ \E value \in Observed(1) : IsInstance(value)
  /\ \E k \in 1..Len(log[1]) : IsBefore(log[1][k]) /\ "k" \in DOMAIN log[1][k].kwargs

(***************************************************************************)
(* Properties of failures (SpecFail).                                      *)
(***************************************************************************)
IsRaise(e) == e.ph = "raise"

\* The entry k of log[i] is the last write of its type into its context.
LastWrite(i, k) ==
  /\ IsState(log[i][k])
  /\ \A l \in (k + 1)..Len(log[i]) :
       ~(/\ IsState(log[i][l])
         /\ log[i][l].ctx = log[i][k].ctx
         /\ TypeOf(log[i][l].state) = TypeOf(log[i][k].state))

\* C13: once a member or the terminal has raised, nothing more is entered
\* in that invocation (the raise stays the last thing recorded: a
\* OneOfAll tries no further member, no body and no terminal runs), the
\* invocation never returns a value (an AllOfAll gives no partial tuple)
\* and, when it ends, it ends with the very exception that was raised; the
\* states written into the context before the failure are all still in
\* its store.
C13_FailurePropagates ==
  \A i \in Inv :
    /\ \A k \in 1..Len(log[i]) :
         IsRaise(log[i][k]) =>
           /\ k = Len(log[i])
           /\ result[i].status \in {"running", "raised"}
           /\ stacks[i] = <<>> =>
                /\ result[i].status = "raised"
                /\ result[i].value = Error(log[i][k].u)
           /\ \A j \in 1..(k - 1) :
                LastWrite(i, j) =>
                  get_state(ctxs[log[i][j].ctx], TypeOf(log[i][j].state)).value
                    = log[i][j].state
    /\ result[i].status = "raised" =>
         Len(log[i]) > 0 /\ IsRaise(log[i][Len(log[i])])

\* The failure has reached the caller of a group of at least two members,
\* raised by a member or the terminal that is not the last to be reached,
\* after an injector wrote a state.
C13_Witness ==
  /\ result[1].status = "raised"
  /\ heap[root].kind \in {"OneOfAll", "AllOfAll"}
  /\ Len(Members) >= 2
  /\ \E j \in 1..(Len(Members) - 1) :
       heap[Members[j]].kind = "MiddlewareState"
       /\ \E k \in 1..Len(log[1]) : IsState(log[1][k]) /\ log[1][k].u = Members[j]
  /\ ~(\E k \in 1..Len(log[1]) :
         log[1][k].u = Members[Len(Members)] /\ log[1][k].ph \in {"before", "state"})

(***************************************************************************)
(* Properties of add_middleware (SpecAdd).                                 *)
(***************************************************************************)
\* The arguments of the calls k.. of applied that added to self.
RECURSIVE AddedTo(_, _)
AddedTo(self, k) ==
  IF k > Len(applied)
    THEN <<>>
    ELSE IF applied[k].self = self /\ ~applied[k].raised
           THEN <<applied[k].arg>> \o AddedTo(self, k + 1)
           ELSE AddedTo(self, k + 1)

\* C14: add_middleware of a value that is not a Middleware raises
\* ValueError and leaves the collection and its fn as they were;
\* add_middleware of a Middleware appends it at the end and returns it; so
\* at any time every element of a collection is a Middleware and the
\* collection is the sequence of the values added to it without failure,
\* in call order.
C14_AddValidates ==
  /\ \A k \in 1..Len(applied) :
       LET a == applied[k]
       IN IF IsMiddleware(heap, a.arg)
            THEN /\ ~a.raised
                 /\ a.ret = a.arg
                 /\ a.after.collection = Append(a.before.collection, a.arg)
            ELSE /\ a.raised
                 /\ a.after = a.before
  /\ \A self \in AddTargets :
       /\ heap[self].collection = AddedTo(self, 1)
       /\ \A j \in 1..Len(heap[self].collection) :
            IsMiddleware(heap, heap[self].collection[j])

\* A collection that holds a member has refused a plain function and then
\* accepted one more member.
C14_Witness ==
  /\ Len(applied) = 3
  /\ applied[1].self = root /\ applied[2].self = root /\ applied[3].self = root
  /\ ~applied[1].raised /\ applied[2].raised /\ ~applied[3].raised
  /\ applied[2].arg \in 1..Len(heap)
  /\ heap[applied[2].arg].kind = "Function"
  /\ Len(heap[root].collection) = 2

\* The first call of applied that added to self (0 if there is none).
FirstAdd(self) ==
  IF \E k \in 1..Len(applied) : applied[k].self = self /\ ~applied[k].raised
    THEN CHOOSE k \in 1..Len(applied) :
           /\ applied[k].self = self /\ ~applied[k].raised
           /\ \A l \in 1..(k - 1) : applied[l].self # self \/ applied[l].raised
    ELSE 0

\* C15: the fn of a chain is None while the chain is empty and from then
\* on the fn its first-added member had when it was added (None if it had
\* none); an add to a chain that already has a member leaves fn alone.
C15_ChainFn ==
  \A self \in AddTargets :
    heap[self].kind = "MiddlewareChain" =>
      /\ heap[self].fn = IF FirstAdd(self) = 0 THEN 0 ELSE applied[FirstAdd(self)].fn
      /\ \A k \in 1..Len(applied) :
           (applied[k].self = self /\ applied[k].before.collection # <<>>) =>
              applied[k].after.fn = applied[k].before.fn

\* A chain adopted the function of its first member and kept it when a
\* member made from another function was added.
C15_Witness ==
  /\ heap[root].kind = "MiddlewareChain"
  /\ Len(heap[root].collection) >= 2
  /\ heap[root].fn # 0
  /\ heap[root].fn = heap[heap[root].collection[1]].fn
  /\ heap[heap[root].collection[2]].fn \notin {0, heap[root].fn}

(***************************************************************************)
(* Properties of a replaced context (SpecReplace).                         *)
(***************************************************************************)
IsEntry(e) == e.ph \in {"before", "T"}

\* What was entered in invocation i, members and terminal, in order.
Entries(i) == SelectSeq(log[i], IsEntry)

\* The entry e is a body that hands a context of its own to next.
Replaces(e) == e.ph = "before" /\ Body(e.u).newctx

\* The contexts that invocation i has shown to anything.
Seen(i) == {log[i][k].ctx : k \in 1..Len(log[i])}

\* C16: in an invocation of a chain the first member entered receives the
\* caller's context; whatever is entered next, a member or the terminal,
\* receives the context of the member entered before it, unless that
\* member handed a replacement to next, and then it receives the
\* replacement, a context nothing received before; and no context received
\* in one invocation is received in another.
C16_ContextReplaced ==
  /\ \A i \in Inv :
       LET es == Entries(i)
       IN /\ es # <<>> => es[1].ctx = log[i][1].ctx
          /\ \A k \in 2..Len(es) :
               IF Replaces(es[k - 1])
                 THEN \A l \in 1..(k - 1) : es[k].ctx # es[l].ctx
                 ELSE es[k].ctx = es[k - 1].ctx
  /\ \A i, j \in Inv : i # j => Seen(i) \cap Seen(j) = {}

\* Both invocations are over; in each the member entered first replaced
\* the context, the member after it and the terminal received the
\* replacement, and the replacements of the two invocations differ.
C16_Witness ==
  /\ Done(1) /\ Done(2)
  /\ \A i \in {1, 2} :
       /\ Len(Entries(i)) = 3
       /\ Replaces(Entries(i)[1])
       /\ ~Replaces(Entries(i)[2])
       /\ IsT(Entries(i)[3])
       /\ Entries(i)[3].ctx = Entries(i)[2].ctx
       /\ Entries(i)[2].ctx # Entries(i)[1].ctx
  /\ Entries(1)[3].ctx # Entries(2)[3].ctx

(***************************************************************************)
(* Properties of is_successful_result (SpecSuccess).                       *)
(***************************************************************************)
\* C17: is_successful_result(value) returns True exactly when value is not
\* MiddlewareResult.IGNORE, and False when it is; so it returns True for
\* OK, for None and for a tuple that holds nothing but IGNORE.
C17_SuccessIffNotIgnore ==
  Done(1) =>
    /\ result[1].value = PyBool(applied[1] # IGNORE)
    /\ applied[1] \in {OK, PyNone, Tuple(<<IGNORE>>), Tuple(<<IGNORE, IGNORE>>)} =>
         result[1].value = PyBool(TRUE)

\* A tuple of two IGNORE has been found successful.
C17_Witness ==
  /\ Done(1)
  /\ applied[1] = Tuple(<<IGNORE, IGNORE>>)
  /\ result[1].value = PyBool(TRUE)

(***************************************************************************)
(* Properties of nested chains (SpecNested).                               *)
(***************************************************************************)
IsStep(e) == e.ph # "call"

\* What invocation i did after the call: which unit's body was entered or
\* left, which state was provided, when the terminal ran, each with the
\* arguments held there.
Steps(i) ==
  LET es == SelectSeq(log[i], IsStep)
  IN [k \in 1..Len(es) |->
        [u |-> es[k].u, ph |-> es[k].ph, args |-> es[k].args,
         kwargs |-> es[k].kwargs, state |-> es[k].state]]

\* C18: the chain with some of its members held by a nested chain does
\* what the flat chain of the same units does: the units are entered and
\* left in the same order with the same arguments, the terminal is called
\* as many times, and the same value is returned.
C18_NestedAsFlat ==
  (Done(1) /\ Done(2)) =>
    /\ Steps(1) = Steps(2)
    /\ TerminalCalls(1) = TerminalCalls(2)
    /\ result[1].value = result[2].value

\* Both calls are over; the second chain holds a unit and a nested chain
\* of two units, every unit was entered and the terminal was called.
C18_Witness ==
  /\ Done(1) /\ Done(2)
  /\ Len(heap[root].collection) = 3
  /\ Len(heap[applied[1]].collection) = 2
  /\ TerminalCalls(2) = 1
  /\ \A j \in 1..3 :
       \E k \in 1..Len(log[2]) :
         log[2][k].u = heap[root].collection[j] /\ log[2][k].ph \in {"before", "state"}

(***************************************************************************)
(* Properties of units added between and during invocations (SpecLate).    *)
(***************************************************************************)
\* The body of unit u was entered in invocation i.
WasEntered(i, u) == \E k \in 1..Len(log[i]) : IsBefore(log[i][k]) /\ log[i][k].u = u

\* A unit added while invocation i was suspended in run is not entered in
\* invocation i.
NotForSuspended ==
  \A k \in 1..Len(applied) : \A i \in applied[k].suspended :
    ~WasEntered(i, applied[k].unit)

\* C19 as stated: a unit added while an invocation is suspended is never
\* entered by that invocation, and it is entered by every invocation
\* started after the addition.
C19_Original ==
  /\ NotForSuspended
  /\ \A k \in 1..Len(applied) : \A i \in Inv \ applied[k].started :
       Done(i) => WasEntered(i, applied[k].unit)

\* C19, amended: a unit added while an invocation is suspended is never
\* entered by that invocation; it is entered by every invocation started
\* after the addition in which each unit added after it, and before that
\* invocation started, calls next.
C19_FixedAtStart ==
  /\ NotForSuspended
  /\ \A k \in 1..Len(applied) : \A i \in Inv \ applied[k].started :
       (/\ Done(i)
        /\ \A l \in (k + 1)..Len(applied) :
             i \notin applied[l].started => CallsNext(applied[l].unit))
         => WasEntered(i, applied[k].unit)

\* Invocation 1 was suspended when a unit was added and ended without
\* entering it; invocation 2, started after two additions, entered both
\* units.
C19_Witness ==
  /\ Done(1) /\ Done(2)
  /\ Len(applied) = 2
  /\ 1 \in applied[1].suspended
  /\ applied[1].started = {1} /\ applied[2].started = {1}
  /\ ~WasEntered(1, applied[1].unit)
  /\ WasEntered(2, applied[1].unit) /\ WasEntered(2, applied[2].unit)

====
